---- MODULE Spec2Model ----
(***************************************************************************)
(* Table sorting of static/js/main.js (lines 165-196): the click handler   *)
(* that is attached to every element of class "sortable".                  *)
(*                                                                         *)
(* The page is a fixed set of sortable headers.  Two tables (A, B) have a  *)
(* <tbody>; table C has none; header hX is not inside any table.  The      *)
(* cell texts and the number of rows of table A are chosen in Init.        *)
(* Every row has a cell in every sortable column (rectangular tables).     *)
(* A text is a sequence of one-character strings.                          *)
(***************************************************************************)
EXTENDS Integers, Sequences, FiniteSets

VARIABLES
    cells,       \* cells[r][c+1]: textContent of cell c of row r
    tbody,       \* tbody[t]: the <tr> children of the tbody of table t, in order
    classList,   \* classList[h]: the sort classes the header h carries
    clicked,     \* the header of the last click ("none" before the first)
    error,       \* what the last handler run raised: "none" or "TypeError"
    prevClassList, \* classList as it was before the last click
    repeated,      \* the last click was on the header of the click before it
    tbody0,      \* tbody as the page was loaded
    cells0       \* cells as the page was loaded

vars == <<cells, tbody, classList, clicked, error, prevClassList, repeated,
          tbody0, cells0>>

\* Largest number of body rows of table A.
MaxRows == 3

----------------------------------------------------------------------------
(* The page *)

NoTable == "null"

\* document.querySelectorAll('.sortable'): every sortable header of the page
sortableHeaders == {"hA0", "hA1", "hB0", "hC0", "hX"}

\* this.closest('table')
ClosestTable(h) ==
    CASE h \in {"hA0", "hA1"} -> "A"
      [] h = "hB0" -> "B"
      [] h = "hC0" -> "C"
      [] OTHER -> NoTable

\* table.querySelector('tbody') finds an element
HasTbody(t) == t \in {"A", "B"}

\* Array.from(this.parentNode.children).indexOf(this)
ColumnOf(h) == IF h = "hA1" THEN 1 ELSE 0

Tables == {"A", "B"}

SortClasses == {"sort-asc", "sort-desc"}

----------------------------------------------------------------------------
(* Texts and String.prototype.trim *)

WhiteSpace == {" "}
Digits == {"0", "1", "2"}
LowerCase == {"a", "b"}
UpperCase == {"B"}

RECURSIVE TrimStart(_)
TrimStart(s) ==
    IF s # <<>> /\ Head(s) \in WhiteSpace THEN TrimStart(Tail(s)) ELSE s

RECURSIVE TrimEnd(_)
TrimEnd(s) ==
    IF s # <<>> /\ s[Len(s)] \in WhiteSpace
    THEN TrimEnd(SubSeq(s, 1, Len(s) - 1))
    ELSE s

\* textContent.trim()
Trim(s) == TrimEnd(TrimStart(s))

----------------------------------------------------------------------------
(* String.prototype.localeCompare(that, undefined, { numeric: true })       *)
(*                                                                         *)
(* The collator turns a text into collation elements.  A maximal run of    *)
(* digits is one element whose primary weight is the number it denotes     *)
(* (leading zeros do not count); any other character is one element.       *)
(* White space sorts before numbers, numbers before letters.  Letters that *)
(* differ only in case have the same primary weight and differ at the      *)
(* third level, lower case first.  Texts are compared by their primary     *)
(* weights first, a proper prefix before the longer text, and by the case  *)
(* level only if the primary weights are all equal.                        *)

DigitVal(c) == CASE c = "0" -> 0 [] c = "1" -> 1 [] OTHER -> 2

RECURSIVE DigitRunLen(_)
DigitRunLen(s) ==
    IF s # <<>> /\ Head(s) \in Digits THEN 1 + DigitRunLen(Tail(s)) ELSE 0

RECURSIVE DigitsValue(_)
DigitsValue(s) ==
    IF s = <<>> THEN 0
    ELSE 10 * DigitsValue(SubSeq(s, 1, Len(s) - 1)) + DigitVal(s[Len(s)])

LetterWeight(c) == IF c = "a" THEN 0 ELSE 1

\* the collation element of one character that is not a digit
CharElement(c) ==
    IF c \in WhiteSpace THEN [class |-> 0, weight |-> 0, case |-> 0]
    ELSE [class |-> 2, weight |-> LetterWeight(c),
          case |-> IF c \in UpperCase THEN 1 ELSE 0]

RECURSIVE CollationElements(_)
CollationElements(s) ==
    IF s = <<>> THEN <<>>
    ELSE IF Head(s) \in Digits
    THEN LET k == DigitRunLen(s)
         IN  <<[class |-> 1, weight |-> DigitsValue(SubSeq(s, 1, k)), case |-> 0]>>
             \o CollationElements(SubSeq(s, k + 1, Len(s)))
    ELSE <<CharElement(Head(s))>> \o CollationElements(Tail(s))

CmpNat(m, n) == IF m < n THEN -1 ELSE IF m > n THEN 1 ELSE 0

\* one collation element against another, at the primary or at the case level
CmpElement(x, y, primary) ==
    IF primary
    THEN IF x.class # y.class THEN CmpNat(x.class, y.class)
         ELSE CmpNat(x.weight, y.weight)
    ELSE CmpNat(x.case, y.case)

RECURSIVE CmpLevel(_, _, _)
CmpLevel(u, v, primary) ==
    IF u = <<>> THEN (IF v = <<>> THEN 0 ELSE -1)
    ELSE IF v = <<>> THEN 1
    ELSE LET c == CmpElement(Head(u), Head(v), primary)
         IN  IF c # 0 THEN c ELSE CmpLevel(Tail(u), Tail(v), primary)

\* a comparison character by character, as without { numeric: true }
localeCompare_plain(a, b) ==
    LET E(s) == [i \in 1..Len(s) |-> IF s[i] \in Digits
                    THEN [class |-> 1, weight |-> DigitVal(s[i]), case |-> 0]
                    ELSE CharElement(s[i])]
        p == CmpLevel(E(a), E(b), TRUE)
    IN  IF p # 0 THEN p ELSE CmpLevel(E(a), E(b), FALSE)

\* a.localeCompare(b, undefined, { numeric: true }): negative, 0 or positive
localeCompare(a, b) ==
    LET u == CollationElements(a)
        v == CollationElements(b)
        p == CmpLevel(u, v, TRUE)
    IN  IF p # 0 THEN p ELSE CmpLevel(u, v, FALSE)

----------------------------------------------------------------------------
(* rows.sort(comparator) and the rebuild of the table body *)

\* a.cells[column].textContent.trim()
CellValue(r, column) == Trim(cells[r][column + 1])

\* a comparator that always compares a with b, whatever the direction
Comparator_oneway(a, b, column, isAscending) ==
    localeCompare(CellValue(a, column), CellValue(b, column))

\* the arrow function given to rows.sort
Comparator(a, b, column, isAscending) ==
    IF isAscending
    THEN localeCompare(CellValue(b, column), CellValue(a, column))
    ELSE localeCompare(CellValue(a, column), CellValue(b, column))

\* an insertion that puts x before the rows it compares equal to
RECURSIVE InsertRow_unstable(_, _, _, _)
InsertRow_unstable(x, s, column, isAscending) ==
    IF s = <<>> THEN <<x>>
    ELSE IF Comparator(x, Head(s), column, isAscending) <= 0 THEN <<x>> \o s
    ELSE <<Head(s)>> \o InsertRow_unstable(x, Tail(s), column, isAscending)

\* x, which came after every row of the sorted s, takes its place in s:
\* before the first row it is smaller than, so after the rows it is equal to
RECURSIVE InsertRow(_, _, _, _)
InsertRow(x, s, column, isAscending) ==
    IF s = <<>> THEN <<x>>
    ELSE IF Comparator(x, Head(s), column, isAscending) < 0 THEN <<x>> \o s
    ELSE <<Head(s)>> \o InsertRow(x, Tail(s), column, isAscending)

\* Array.prototype.sort: a stable sort by the comparator
RECURSIVE SortRows(_, _, _)
SortRows(rows, column, isAscending) ==
    IF rows = <<>> THEN <<>>
    ELSE InsertRow(rows[Len(rows)],
                   SortRows(SubSeq(rows, 1, Len(rows) - 1), column, isAscending),
                   column, isAscending)

\* an append that leaves the row where it was as well
AppendChild_copy(children, row) == Append(children, row)

\* tbody.appendChild(row): the row leaves its place and becomes the last child
AppendChild(children, row) ==
    Append(SelectSeq(children, LAMBDA x : x # row), row)

\* rows.forEach(row => tbody.appendChild(row))
RECURSIVE Rebuild(_, _)
Rebuild(children, rows) ==
    IF rows = <<>> THEN children
    ELSE Rebuild(AppendChild(children, Head(rows)), Tail(rows))

----------------------------------------------------------------------------
(* The click handler *)

\* a test for the other class
IsAscending_desc(h) == "sort-desc" \in classList[h]

\* this.classList.contains('sort-asc')
IsAscending(h) == "sort-asc" \in classList[h]

\* a removal that forgets 'sort-desc'
RemoveSortClasses_asc(cl) == [g \in sortableHeaders |-> cl[g] \ {"sort-asc"}]

\* sortableHeaders.forEach(h => h.classList.remove('sort-asc', 'sort-desc'))
RemoveSortClasses(cl) == [g \in sortableHeaders |-> cl[g] \ SortClasses]

\* an addition that always adds 'sort-asc'
AddSortClass_asc(cl, h, isAscending) == [cl EXCEPT ![h] = @ \cup {"sort-asc"}]

\* this.classList.add(isAscending ? 'sort-desc' : 'sort-asc')
AddSortClass(cl, h, isAscending) ==
    [cl EXCEPT ![h] = @ \cup {IF isAscending THEN "sort-desc" ELSE "sort-asc"}]

\* rows.sort(...) followed by rows.forEach(row => tbody.appendChild(row)):
\* the children of the body after the sort step
SortStep(children, column, isAscending) ==
    Rebuild(children, SortRows(children, column, isAscending))

\* this.closest('table') and table.querySelector('tbody') both find an element
ReachesBody(h) == ClosestTable(h) # NoTable /\ HasTbody(ClosestTable(h))

\* The handler of a click on header h.  this.closest('table') is null for a
\* header outside any table, and table.querySelector('tbody') is null for a
\* table without a body: the next line then reads a property of null, which
\* raises a TypeError and ends the handler before it has changed anything.
Click(h) ==
    /\ clicked' = h
    /\ prevClassList' = classList
    /\ repeated' = (clicked = h)
    /\ UNCHANGED <<cells, tbody0, cells0>>
    /\ IF ~ReachesBody(h)
       THEN /\ error' = "TypeError"
            /\ UNCHANGED <<tbody, classList>>
       ELSE LET table == ClosestTable(h)
                column == ColumnOf(h)
                isAscending == IsAscending(h)
            IN  /\ classList' = AddSortClass(RemoveSortClasses(classList),
                                             h, isAscending)
                /\ tbody' = [tbody EXCEPT ![table] =
                                SortStep(tbody[table], column, isAscending)]
                /\ error' = "none"

----------------------------------------------------------------------------
(* The page as loaded *)

\* texts of the first column of table A
TextsA0 == {<<"2">>, <<"1", "0">>, <<"1">>, <<"0", "1">>, <<"b">>}
\* texts of the second column of table A: they alternate down the rows
TextsA1 == <<<<" ", "B", " ">>, <<"a">>>>

\* texts of the only column of table B
TextsB0 == <<<<"1", "0">>, <<"2">>>>

RowsOf(t, n) == [i \in 1..n |-> <<t, i>>]

Init ==
    \E n \in 0..MaxRows :
    \E a0 \in [1..n -> TextsA0] :
        /\ cells = [r \in {<<"A", i>> : i \in 1..n} \cup {<<"B", 1>>, <<"B", 2>>} |->
                      IF r[1] = "A"
                      THEN <<a0[r[2]], TextsA1[1 + ((r[2] + 1) % 2)]>>
                      ELSE <<TextsB0[r[2]]>>]
        /\ tbody = [t \in Tables |-> IF t = "A" THEN RowsOf("A", n) ELSE RowsOf("B", 2)]
        /\ classList = [h \in sortableHeaders |-> {}]
        /\ clicked = "none"
        /\ error = "none"
        /\ prevClassList = classList
        /\ repeated = FALSE
        /\ tbody0 = tbody
        /\ cells0 = cells

Next == \E h \in sortableHeaders : Click(h)

Spec == Init /\ [][Next]_vars

----------------------------------------------------------------------------
(* Vocabulary of the properties *)

\* the body rows of a table; a table without a body has none
BodyRows(t) == IF t \in Tables THEN tbody[t] ELSE <<>>

HeadersOf(t) == {g \in sortableHeaders : ClosestTable(g) = t}

Reverse(s) == [i \in 1..Len(s) |-> s[Len(s) + 1 - i]]

\* the trimmed texts of a column, down the rows
Keys(rows, column) == [i \in 1..Len(rows) |-> CellValue(rows[i], column)]

\* the marker a click leaves on a header that carried the classes cl
Toggled(cl) == IF "sort-asc" \in cl THEN {"sort-desc"} ELSE {"sort-asc"}

NonDecreasing(rows, column) ==
    \A i \in 1..(Len(rows) - 1) :
        localeCompare(CellValue(rows[i], column), CellValue(rows[i + 1], column)) <= 0

NonIncreasing(rows, column) ==
    \A i \in 1..(Len(rows) - 1) :
        localeCompare(CellValue(rows[i], column), CellValue(rows[i + 1], column)) >= 0

\* no two rows have the same trimmed text in the column
KeysDistinctAsText(rows, column) ==
    \A i, j \in 1..Len(rows) :
        i # j => CellValue(rows[i], column) # CellValue(rows[j], column)

\* no two rows compare equal in the column
KeysDistinctForCollator(rows, column) ==
    \A i, j \in 1..Len(rows) :
        i # j => localeCompare(CellValue(rows[i], column),
                               CellValue(rows[j], column)) # 0

\* a text of decimal digits only
IsNumericText(s) == s # <<>> /\ \A i \in 1..Len(s) : s[i] \in Digits

AllNumeric(rows, column) ==
    \A i \in 1..Len(rows) : IsNumericText(cells[rows[i]][column + 1])

NumericNonDecreasing(rows, column) ==
    \A i \in 1..(Len(rows) - 1) :
        DigitsValue(cells[rows[i]][column + 1])
            <= DigitsValue(cells[rows[i + 1]][column + 1])

IsPermutation(s, t) ==
    /\ Len(s) = Len(t)
    /\ \A i \in 1..Len(t) : Cardinality({j \in 1..Len(s) : s[j] = t[i]}) = 1

----------------------------------------------------------------------------
(* C1 *)

\* C1 as stated: every click on a sortable header h sets h's marker to
\* ascending, unless h carried the ascending marker just before the click,
\* in which case the click sets it to descending.
C1_EveryClickToggles ==
    [][\A h \in sortableHeaders :
          clicked' = h => classList'[h] = Toggled(classList[h])]_vars

\* C1, amended: every click on a sortable header h whose table has a body
\* row-group sets h's marker to ascending, unless h carried the ascending
\* marker just before the click, in which case the click sets it to
\* descending (unset -> ascending -> descending -> ascending).
C1_ClickToggles ==
    [][\A h \in sortableHeaders :
          (clicked' = h /\ ReachesBody(h))
              => classList'[h] = Toggled(classList[h])]_vars

\* a click has taken a header from descending back to ascending
C1_Witness ==
    /\ clicked = "hA0"
    /\ prevClassList["hA0"] = {"sort-desc"}
    /\ classList["hA0"] = {"sort-asc"}

----------------------------------------------------------------------------
(* C2 *)

NoDoubleMarker == \A g \in sortableHeaders : Cardinality(classList[g]) <= 1

MarkedHeaders(t) == {g \in HeadersOf(t) : classList[g] # {}}

\* C2 as stated: after every click on a sortable header, the clicked header
\* is the one and only sortable header of its table that carries a direction
\* marker, and no header carries both markers.
C2_ExactlyOneAfterEveryClick ==
    /\ clicked \in sortableHeaders
          => MarkedHeaders(ClosestTable(clicked)) = {clicked}
    /\ NoDoubleMarker

\* C2, amended: after every click on a sortable header whose table has a
\* body row-group, the clicked header is the one and only sortable header
\* of its table that carries a direction marker; no header ever carries
\* both the ascending and the descending marker.
C2_ExactlyOneMarker ==
    /\ (clicked \in sortableHeaders /\ ReachesBody(clicked))
          => MarkedHeaders(ClosestTable(clicked)) = {clicked}
    /\ NoDoubleMarker

\* header hA1 was clicked while hA0 carried a marker, and hA0 lost it
C2_Witness ==
    /\ clicked = "hA1"
    /\ prevClassList["hA0"] # {}
    /\ classList["hA0"] = {}
    /\ classList["hA1"] = {"sort-asc"}

----------------------------------------------------------------------------
(* C3 *)

\* C3: a click on a sortable header leaves the direction markers of the
\* sortable headers of every other table, and the row order of every other
\* table, unchanged.
C3_OtherTablesUnchanged ==
    [][\A h \in sortableHeaders :
          clicked' = h =>
              /\ \A g \in sortableHeaders :
                    ClosestTable(g) # ClosestTable(h)
                        => classList'[g] = classList[g]
              /\ \A t \in Tables :
                    t # ClosestTable(h) => tbody'[t] = tbody[t]]_vars

----------------------------------------------------------------------------
(* C4 *)

\* C4 as stated: when the trimmed texts of the clicked column are pairwise
\* distinct, the second of two consecutive clicks on the same initially
\* unmarked header leaves the rows in descending order of the column, in
\* exactly the reverse of the order the first click left.
C4_SecondClickReversesDistinctTexts ==
    [][\A h \in sortableHeaders :
          LET t == ClosestTable(h) IN
          (/\ t # NoTable
           /\ clicked = h /\ prevClassList[h] = {}
           /\ clicked' = h
           /\ KeysDistinctAsText(BodyRows(t), ColumnOf(h)))
              => /\ BodyRows(t)' = Reverse(BodyRows(t))
                 /\ NonIncreasing(BodyRows(t)', ColumnOf(h))]_vars

\* C4, amended: when no two keys of the clicked column compare equal under
\* the numeric locale-aware comparison, the second of two consecutive clicks
\* on the same initially unmarked header leaves the rows in descending order
\* of the column, in exactly the reverse of the order the first click left.
C4_SecondClickReverses ==
    [][\A h \in sortableHeaders :
          LET t == ClosestTable(h) IN
          (/\ t # NoTable
           /\ clicked = h /\ prevClassList[h] = {}
           /\ clicked' = h
           /\ KeysDistinctForCollator(BodyRows(t), ColumnOf(h)))
              => /\ BodyRows(t)' = Reverse(BodyRows(t))
                 /\ NonIncreasing(BodyRows(t)', ColumnOf(h))]_vars

\* two clicks in a row on hA0 have reversed three rows of distinct keys
C4_Witness ==
    /\ clicked = "hA0" /\ repeated
    /\ prevClassList["hA0"] = {"sort-asc"}
    /\ classList["hA0"] = {"sort-desc"}
    /\ Len(tbody["A"]) = 3
    /\ KeysDistinctForCollator(tbody["A"], 0)
    /\ tbody["A"] = Reverse(SortStep(tbody0["A"], 0, FALSE))

----------------------------------------------------------------------------
(* C5 *)

----------------------------------------------------------------------------
(* C6 *)

\* C6: a click on a sortable header that has no enclosing table, or whose
\* table has no body row-group, raises no error and changes neither a row
\* order nor a direction marker.
C6_MissingBodyIsSilentNoOp ==
    [][\A h \in sortableHeaders :
          (clicked' = h /\ ~ReachesBody(h))
              => /\ error' = "none"
                 /\ tbody' = tbody
                 /\ classList' = classList]_vars

----------------------------------------------------------------------------
(* C7 *)

\* C7 as stated: a click on a sortable header of a table whose body has no
\* rows raises no error, leaves the row count at 0 and leaves the page,
\* every header's direction marker included, as it was.
C7_EmptyBodyChangesNothing ==
    [][\A h \in sortableHeaders :
          (clicked' = h /\ ReachesBody(h) /\ BodyRows(ClosestTable(h)) = <<>>)
              => /\ error' = "none"
                 /\ Len(BodyRows(ClosestTable(h))') = 0
                 /\ tbody' = tbody
                 /\ classList' = classList]_vars

\* C7, amended: a click on a sortable header of a table whose body has no
\* rows raises no error and leaves the row count at 0 and every row order
\* as it was, but it does change the markers as any click does: the clicked
\* header gets its toggled marker and every other sortable header has none.
C7_EmptyBodyKeepsRows ==
    [][\A h \in sortableHeaders :
          (clicked' = h /\ ReachesBody(h) /\ BodyRows(ClosestTable(h)) = <<>>)
              => /\ error' = "none"
                 /\ Len(BodyRows(ClosestTable(h))') = 0
                 /\ tbody' = tbody
                 /\ classList'[h] = Toggled(classList[h])
                 /\ \A g \in sortableHeaders \ {h} : classList'[g] = {}]_vars

\* a header of the empty table A has been clicked from ascending to descending
C7_Witness ==
    /\ clicked = "hA0"
    /\ tbody["A"] = <<>>
    /\ error = "none"
    /\ prevClassList["hA0"] = {"sort-asc"}
    /\ classList["hA0"] = {"sort-desc"}

----------------------------------------------------------------------------
(* C8 *)

\* C8: for every table and column, the ascending sort step applied to the
\* row order that the ascending sort step has produced yields that same row
\* order, rows with equal keys included.
C8_AscendingSortIdempotent ==
    \A h \in sortableHeaders :
        ReachesBody(h) =>
            LET once == SortStep(tbody[ClosestTable(h)], ColumnOf(h), FALSE)
            IN  SortStep(once, ColumnOf(h), FALSE) = once

\* an ascending sort step has just run on three rows, two of which have
\* different texts that compare equal
C8_Witness ==
    /\ clicked = "hA0"
    /\ "sort-asc" \notin prevClassList["hA0"]
    /\ Len(tbody["A"]) = 3
    /\ \E i, j \in 1..3 :
          /\ i < j
          /\ Keys(tbody["A"], 0)[i] # Keys(tbody["A"], 0)[j]
          /\ localeCompare(Keys(tbody["A"], 0)[i], Keys(tbody["A"], 0)[j]) = 0

----------------------------------------------------------------------------
(* C9 *)

\* C9: after any sequence of clicks, the body rows of every table are a
\* permutation of the rows it was loaded with (none lost, duplicated or
\* created) and the text of every cell is what it was.
C9_PureReordering ==
    /\ \A t \in Tables : IsPermutation(tbody[t], tbody0[t])
    /\ cells = cells0

\* three rows have been put in another order by clicks
C9_Witness ==
    /\ clicked \in {"hA0", "hA1"}
    /\ Len(tbody["A"]) = 3
    /\ tbody["A"] # tbody0["A"]
    /\ tbody["B"] # tbody0["B"]

----------------------------------------------------------------------------
(* C10 *)

\* C10: in every state reached by clicks from a page without markers, the
\* body rows of a table are in non-decreasing order of the column of any
\* header of it that carries the ascending marker, and in non-increasing
\* order of the column of any header of it that carries the descending one.
C10_MarkerAgreesWithOrder ==
    \A h \in sortableHeaders :
        LET rows == BodyRows(ClosestTable(h)) IN
        /\ "sort-asc" \in classList[h] => NonDecreasing(rows, ColumnOf(h))
        /\ "sort-desc" \in classList[h] => NonIncreasing(rows, ColumnOf(h))

\* a header carries the descending marker over three rows that are not all equal
C10_Witness ==
    /\ classList["hA1"] = {"sort-desc"}
    /\ Len(tbody["A"]) = 3
    /\ ~NonDecreasing(tbody["A"], 1)
    /\ ~NonDecreasing(tbody["A"], 0)

====
